---- MODULE Spec2Model ----
(***************************************************************************)
(* Model of the SecurityTab component of seo-tool (src/securityTab.tsx):   *)
(* the effect that starts analyzeWebsite, the TLS grading client checkSSL  *)
(* (start request, timed poll loop) and the header / surface scan          *)
(* checkSecurityHeaders, which analyzeWebsite runs concurrently with       *)
(* Promise.all and publishes into the component state.                     *)
(*                                                                         *)
(* Every await of the source is a suspension point: one action is the      *)
(* completion of the awaited request (or timer) together with the          *)
(* synchronous code that runs after it, up to and including the issue of   *)
(* the next request.                                                       *)
(***************************************************************************)
EXTENDS Integers, Sequences, FiniteSets, TLC

VARIABLES
    url,              \* the url prop of the component
    loading,          \* useState: loading
    sslData,          \* useState: sslData (nullable)
    securityHeaders,  \* useState: securityHeaders (nullable)
    vulnerabilities,  \* useState: vulnerabilities (nullable)
    error,            \* useState: error
    aPc,              \* position of the effect / analyzeWebsite
    hostname,         \* analyzeWebsite: const hostname
    parked,           \* the analyses of earlier urls that are still in the event loop
    sslPc,            \* position of checkSSL
    attempts,         \* checkSSL: let attempts
    sslTimers,        \* number of setTimeout waits checkSSL has started
    sslPolls,         \* number of poll requests checkSSL has issued
    sslElapsed,       \* time checkSSL has spent in completed waits
    sslResult,        \* settlement of the promise checkSSL returned
    secPc,            \* position of checkSecurityHeaders
    idx,              \* index of the catalogue entry whose request is in flight
    headers,          \* checkSecurityHeaders: const headers
    vulns,            \* checkSecurityHeaders: const vulns
    secRequests,      \* requests checkSecurityHeaders has issued, in order
    secResult,        \* settlement of the promise checkSecurityHeaders returned
    signalsLeft,      \* how many more result-bearing answers the host may give
    seoUrl,           \* analyzeSEO: the url argument
    seoPc,            \* position of analyzeSEO / checkRobotsTxt
    dom,              \* the document cheerio loaded (nullable)
    seoRequests,      \* requests the script has issued, in order
    seoResult,        \* settlement of the promise analyzeSEO returned
    summary           \* value a helper of the script returned (nullable)

vars == <<url, loading, sslData, securityHeaders, vulnerabilities, error, aPc, hostname,
          parked,
          sslPc, attempts, sslTimers, sslPolls, sslElapsed, sslResult,
          secPc, idx, headers, vulns, secRequests, secResult, signalsLeft,
          seoUrl, seoPc, dom, seoRequests, seoResult, summary>>

compVars == <<url, loading, sslData, securityHeaders, vulnerabilities, error, aPc,
             hostname, parked>>
sslVars  == <<sslPc, attempts, sslTimers, sslPolls, sslElapsed, sslResult>>
secVars  == <<secPc, idx, headers, vulns, secRequests, secResult, signalsLeft>>
\* the component (src/securityTab.tsx) and the script (src/unnamed/part_000)
tabVars  == <<compVars, sslVars, secVars>>
seoVars  == <<seoUrl, seoPc, dom, seoRequests, seoResult, summary>>

----------------------------------------------------------------------------
(* Bounds of the model. *)

\* result-bearing answers of the host in a run of the whole component, where
\* the scan is interleaved with the 30 polls of checkSSL
MaxSignals == 0
\* result-bearing answers of the host in a run of checkSecurityHeaders alone
MaxProbeSignals == 3

----------------------------------------------------------------------------
(* Values. *)

\* a nullable value is the empty tuple (null) or a one-element tuple
Null == <<>>
Some(v) == <<v>>

\* settlement of a promise
Pending == [kind |-> "pending"]
Returned(v) == [kind |-> "return", value |-> v]
Thrown(m) == [kind |-> "throw", message |-> m]

\* result of a fetch: a rejected promise, or a response
NetworkError == [kind |-> "error"]

\* values of the url prop: the empty string and a bare host name; valid tells
\* whether the text, given a default https scheme, parses as a URL
Urls == { [text |-> "", host |-> "", valid |-> FALSE],
          [text |-> "example.com", host |-> "example.com", valid |-> TRUE] }

\* extractHostname: the host of the url parsed with a default https scheme,
\* the url text unchanged when it does not parse
extractHostname(u) == IF u.valid THEN u.host ELSE u.text

\* the script of src/unnamed/part_000 before it is run
ScriptNotRun ==
    /\ seoUrl = ""
    /\ seoPc = "idle"
    /\ dom = Null
    /\ seoRequests = <<>>
    /\ seoResult = Pending
    /\ summary = Null

----------------------------------------------------------------------------
(* checkSSL *)

maxAttempts == 30
\* the wait before each poll, in seconds
interval == 10

EndpointLists ==
    { <<>>,
      << [ipAddress |-> "192.0.2.1", grade |-> "A"],
         [ipAddress |-> "192.0.2.2", grade |-> "B"] >> }

\* statuses of the grading service other than READY and ERROR
OtherStatuses == {"DNS", "IN_PROGRESS"}

\* answers to the start request: only response.ok is read
StartOutcomes ==
    { NetworkError,
      [kind |-> "response", ok |-> FALSE],
      [kind |-> "response", ok |-> TRUE] }

\* answers to a poll request: a failed fetch, a non-OK response, a response
\* whose body is not JSON, or a JSON payload
PollOutcomes ==
    { NetworkError,
      [kind |-> "response", ok |-> FALSE, json |-> Null],
      [kind |-> "response", ok |-> TRUE, json |-> Null] }
    \cup { [kind |-> "response", ok |-> TRUE,
            json |-> Some([status |-> "READY", endpoints |-> e])] : e \in EndpointLists }
    \cup { [kind |-> "response", ok |-> TRUE,
            json |-> Some([status |-> s, endpoints |-> <<>>])] : s \in OtherStatuses \cup {"ERROR"} }

\* checkSSL without its catch block: the error reaches the caller
checkSSLCatch_rethrow(outcome) == outcome

\* the catch block of checkSSL: whatever was thrown becomes a null result
checkSSLCatch(outcome) ==
    IF outcome.kind = "throw" THEN Returned(Null) ELSE outcome

\* the loop test off by one: attempts <= maxAttempts
sslLoop_offByOne(n) ==
    [attempts |-> n,
     settle |-> IF n <= maxAttempts THEN Pending ELSE Thrown("SSL analysis timeout")]

\* the loop test with the counter at n: another iteration starts its wait, or
\* the loop is left and the timeout error is thrown
sslLoop(n) ==
    [attempts |-> n,
     settle |-> IF n < maxAttempts THEN Pending ELSE Thrown("SSL analysis timeout")]

\* the start response taken without the check of startResponse.ok
sslAfterStart_noOkCheck(r) ==
    IF r.kind = "error" THEN [attempts |-> 0, settle |-> Thrown("fetch failed")]
    ELSE sslLoop(0)

\* the code after the start response, up to the first wait
sslAfterStart(r) ==
    IF r.kind = "error" THEN [attempts |-> 0, settle |-> Thrown("fetch failed")]
    ELSE IF ~r.ok THEN [attempts |-> 0, settle |-> Thrown("SSL Labs API error")]
    ELSE sslLoop(0)

\* the poll response taken without the READY branch: READY counts as one more
\* non-terminal status
sslAfterPoll_readyIgnored(r, n) ==
    IF r.kind = "error" THEN [attempts |-> n, settle |-> Thrown("fetch failed")]
    ELSE IF ~r.ok THEN [attempts |-> n, settle |-> Thrown("SSL Labs polling error")]
    ELSE IF r.json = Null THEN [attempts |-> n, settle |-> Thrown("invalid json")]
    ELSE IF r.json[1].status = "ERROR"
         THEN [attempts |-> n, settle |-> Thrown("SSL Labs analysis failed")]
    ELSE sslLoop(n + 1)

\* the code after a poll response with the counter at n, up to the next wait
\* or the return
sslAfterPoll(r, n) ==
    IF r.kind = "error" THEN [attempts |-> n, settle |-> Thrown("fetch failed")]
    ELSE IF ~r.ok THEN [attempts |-> n, settle |-> Thrown("SSL Labs polling error")]
    ELSE IF r.json = Null THEN [attempts |-> n, settle |-> Thrown("invalid json")]
    ELSE IF r.json[1].status = "READY"
         THEN [attempts |-> n, settle |-> Returned(Some(r.json[1]))]
    ELSE IF r.json[1].status = "ERROR"
         THEN [attempts |-> n, settle |-> Thrown("SSL Labs analysis failed")]
    ELSE sslLoop(n + 1)

\* checkSSL is called: the start request is issued
sslCall ==
    /\ sslPc' = "start"
    /\ attempts' = 0
    /\ sslTimers' = 0
    /\ sslPolls' = 0
    /\ sslElapsed' = 0
    /\ sslResult' = Pending

\* checkSSL running on without the wait: the next poll is taken as issued at once
sslResume_noWait(st) ==
    LET out == checkSSLCatch(st.settle) IN
    /\ sslResult' = out
    /\ attempts' = st.attempts
    /\ sslPc' = IF out = Pending THEN "poll" ELSE "done"
    /\ sslTimers' = sslTimers

\* checkSSL runs on from a suspension point with step result st: it settles,
\* or it starts the wait of the next iteration
sslResume(st) ==
    LET out == checkSSLCatch(st.settle) IN
    /\ sslResult' = out
    /\ attempts' = st.attempts
    /\ sslPc' = IF out = Pending THEN "wait" ELSE "done"
    /\ sslTimers' = IF out = Pending THEN sslTimers + 1 ELSE sslTimers

\* the start request completes
StartResponse(r) ==
    /\ sslPc = "start"
    /\ UNCHANGED seoVars
    /\ sslResume(sslAfterStart(r))
    /\ UNCHANGED <<sslPolls, sslElapsed>>
    /\ UNCHANGED compVars
    /\ UNCHANGED secVars

\* the 10 second timer fires and the poll request is issued
TimerFires ==
    /\ sslPc = "wait"
    /\ UNCHANGED seoVars
    /\ sslPc' = "poll"
    /\ sslElapsed' = sslElapsed + interval
    /\ sslPolls' = sslPolls + 1
    /\ UNCHANGED <<attempts, sslTimers, sslResult>>
    /\ UNCHANGED compVars
    /\ UNCHANGED secVars

\* a poll request completes
PollResponse(r) ==
    /\ sslPc = "poll"
    /\ UNCHANGED seoVars
    /\ sslResume(sslAfterPoll(r, attempts))
    /\ UNCHANGED <<sslPolls, sslElapsed>>
    /\ UNCHANGED compVars
    /\ UNCHANGED secVars

----------------------------------------------------------------------------
(* checkSecurityHeaders *)

adminPaths ==
    << "/admin", "/administrator", "/wp-admin", "/admin.php", "/login",
       "/dashboard", "/cpanel", "/control", "/manager" >>

sensitiveFiles ==
    << "/.env", "/config.php", "/wp-config.php", "/.htaccess", "/robots.txt",
       "/sitemap.xml", "/backup.sql", "/database.sql", "/.git/config",
       "/composer.json", "/package.json" >>

\* the five response headers that are read, by the field that receives them
HeaderOf ==
    [strictTransportSecurity |-> "strict-transport-security",
     xFrameOptions |-> "x-frame-options",
     xXssProtection |-> "x-xss-protection",
     contentSecurityPolicy |-> "content-security-policy",
     xContentTypeOptions |-> "x-content-type-options"]

HeaderFields == DOMAIN HeaderOf
HeaderNames == { HeaderOf[f] : f \in HeaderFields }
HeaderValues == {"", "max-age=100"}

\* a response's header map: each header absent (null) or present with a value
HeaderMaps == [HeaderNames -> {Null} \cup { Some(v) : v \in HeaderValues }]

\* statuses a HEAD request to an admin path or to a file may answer with
AdminStatuses == {0, 200, 400, 404}
FileStatuses == {200, 204, 404}

\* a page body is a sequence of tokens; the three markers of a listing page
DirMarkers ==
    { <<"Index", "of", "/">>, <<"Directory", "Listing">>, <<"<title>", "Index", "of">> }
DirBodies ==
    { <<"<html>", "Welcome">>,
      <<"Index", "of">>,
      <<"<h1>", "Index", "of", "/">>,
      <<"Apache", "Directory", "Listing", "for", "/">>,
      <<"<title>", "Index", "of", "files">> }

\* String.prototype.includes on token sequences
includes(text, needle) ==
    \E i \in 1..(Len(text) - Len(needle) + 1) :
        SubSeq(text, i, i + Len(needle) - 1) = needle

\* a || null
orNull(v) == IF v = Null \/ v = Some("") THEN Null ELSE v

\* what the host's answer adds to the results of the scan (the environment's
\* account of it, charged against signalsLeft)
HeaderSignals(o) ==
    IF o.kind = "error" THEN 0
    ELSE Cardinality({ n \in HeaderNames : o.headers[n] \notin {Null, Some("")} })
AdminSignals(o) ==
    IF o.kind = "response" /\ o.status \notin {0, 404} THEN 1 ELSE 0
DirSignals(o) ==
    IF o.kind = "response" /\ o.body # Null
       /\ \E m \in DirMarkers : includes(o.body[1], m) THEN 1 ELSE 0
FileSignals(o) ==
    IF o.kind = "response" /\ o.status = 200 THEN 1 ELSE 0

HeaderOutcomes ==
    {NetworkError} \cup { [kind |-> "response", headers |-> m] : m \in HeaderMaps }
AdminOutcomes ==
    {NetworkError} \cup { [kind |-> "response", status |-> s] : s \in AdminStatuses }
DirOutcomes ==
    {NetworkError} \cup {[kind |-> "response", body |-> Null]}
    \cup { [kind |-> "response", body |-> Some(b)] : b \in DirBodies }
FileOutcomes ==
    {NetworkError} \cup { [kind |-> "response", status |-> s] : s \in FileStatuses }

\* a request of the scan, as a log entry
Request(kind, path) == [kind |-> kind, host |-> hostname, path |-> path]

nullHeaders == [f \in HeaderFields |-> Null]
noVulns == [adminUrls |-> <<>>, directoryIndexing |-> FALSE, sensitiveFiles |-> <<>>]

\* the try block of the header check
headerBody(h, o) ==
    IF o.kind = "error" THEN [headers |-> h, thrown |-> TRUE]
    ELSE [headers |-> [f \in HeaderFields |-> orNull(o.headers[HeaderOf[f]])],
          thrown |-> FALSE]
\* the header check without its catch block
headerCatch_rethrow(st) == st

\* its catch block
headerCatch(st) == [st EXCEPT !.thrown = FALSE]

\* the admin filter without the test for status 0
adminRecorded_only404(status) == status # 404

\* whether an admin response is recorded
adminRecorded(status) == status # 404 /\ status # 0

\* the admin path check putting a new entry in front of the list
adminBody_unshift(v, path, o) ==
    IF o.kind = "error" THEN [vulns |-> v, thrown |-> TRUE]
    ELSE IF adminRecorded(o.status)
    THEN [vulns |-> [v EXCEPT !.adminUrls =
                        <<[url |-> path, status |-> o.status,
                           accessible |-> o.status < 400]>> \o @],
          thrown |-> FALSE]
    ELSE [vulns |-> v, thrown |-> FALSE]

\* the try block of one admin path check
adminBody(v, path, o) ==
    IF o.kind = "error" THEN [vulns |-> v, thrown |-> TRUE]
    ELSE IF adminRecorded(o.status)
    THEN [vulns |-> [v EXCEPT !.adminUrls =
                        Append(@, [url |-> path, status |-> o.status,
                                   accessible |-> o.status < 400])],
          thrown |-> FALSE]
    ELSE [vulns |-> v, thrown |-> FALSE]
\* the admin path check without its catch block
adminCatch_rethrow(st) == st

\* its catch block
adminCatch(st) == [st EXCEPT !.thrown = FALSE]

\* the try block of the directory indexing check
dirBody(v, o) ==
    IF o.kind = "error" \/ o.body = Null THEN [vulns |-> v, thrown |-> TRUE]
    ELSE IF \/ includes(o.body[1], <<"Index", "of", "/">>)
            \/ includes(o.body[1], <<"Directory", "Listing">>)
            \/ includes(o.body[1], <<"<title>", "Index", "of">>)
    THEN [vulns |-> [v EXCEPT !.directoryIndexing = TRUE], thrown |-> FALSE]
    ELSE [vulns |-> v, thrown |-> FALSE]
\* its catch block
dirCatch(st) == [st EXCEPT !.thrown = FALSE]

\* the file filter taking every successful status
fileRecorded_anyOk(status) == status >= 200 /\ status < 300

\* whether a file response is recorded
fileRecorded(status) == status = 200

\* the try block of one sensitive file check
fileBody(v, file, o) ==
    IF o.kind = "error" THEN [vulns |-> v, thrown |-> TRUE]
    ELSE IF fileRecorded(o.status)
    THEN [vulns |-> [v EXCEPT !.sensitiveFiles =
                        Append(@, [file |-> file, accessible |-> TRUE,
                                   status |-> o.status])],
          thrown |-> FALSE]
    ELSE [vulns |-> v, thrown |-> FALSE]
\* the sensitive file check without its catch block
fileCatch_rethrow(st) == st

\* its catch block
fileCatch(st) == [st EXCEPT !.thrown = FALSE]

\* checkSecurityHeaders is called for host h: the header request is issued
\* checkSecurityHeaders issuing the first admin path request without awaiting
\* the header request
secCall_parallel(h) ==
    /\ secPc' = "header"
    /\ idx' = 0
    /\ headers' = nullHeaders
    /\ vulns' = noVulns
    /\ secRequests' = << [kind |-> "header", host |-> h, path |-> ""],
                         [kind |-> "admin", host |-> h, path |-> adminPaths[1]] >>
    /\ secResult' = Pending

secCall(h) ==
    /\ secPc' = "header"
    /\ idx' = 0
    /\ headers' = nullHeaders
    /\ vulns' = noVulns
    /\ secRequests' = << [kind |-> "header", host |-> h, path |-> ""] >>
    /\ secResult' = Pending

\* an error escapes checkSecurityHeaders: its promise is rejected
secReject ==
    /\ secPc' = "done"
    /\ idx' = 0
    /\ secResult' = Thrown("fetch failed")
    /\ UNCHANGED secRequests

\* the header request completes; the admin path loop starts
HeaderResponse(o) ==
    /\ secPc = "header"
    /\ UNCHANGED seoVars
    /\ HeaderSignals(o) <= signalsLeft
    /\ signalsLeft' = signalsLeft - HeaderSignals(o)
    /\ LET st == headerCatch(headerBody(headers, o)) IN
        /\ headers' = st.headers
        /\ IF st.thrown THEN secReject
           ELSE /\ secPc' = "admin"
                /\ idx' = 1
                /\ secRequests' = Append(secRequests, Request("admin", adminPaths[1]))
                /\ UNCHANGED secResult
    /\ UNCHANGED vulns
    /\ UNCHANGED compVars
    /\ UNCHANGED sslVars

\* the request for admin path idx completes; the next one is issued, or the
\* directory indexing request after the last
AdminResponse(o) ==
    /\ secPc = "admin"
    /\ UNCHANGED seoVars
    /\ AdminSignals(o) <= signalsLeft
    /\ signalsLeft' = signalsLeft - AdminSignals(o)
    /\ LET st == adminCatch(adminBody(vulns, adminPaths[idx], o)) IN
        /\ vulns' = st.vulns
        /\ IF st.thrown THEN secReject
           ELSE IF idx < Len(adminPaths)
           THEN /\ idx' = idx + 1
                /\ secRequests' = Append(secRequests, Request("admin", adminPaths[idx + 1]))
                /\ UNCHANGED <<secPc, secResult>>
           ELSE /\ secPc' = "dir"
                /\ idx' = 0
                /\ secRequests' = Append(secRequests, Request("dir", "/"))
                /\ UNCHANGED secResult
    /\ UNCHANGED headers
    /\ UNCHANGED compVars
    /\ UNCHANGED sslVars

\* the directory indexing request completes; the sensitive file loop starts
DirResponse(o) ==
    /\ secPc = "dir"
    /\ UNCHANGED seoVars
    /\ DirSignals(o) <= signalsLeft
    /\ signalsLeft' = signalsLeft - DirSignals(o)
    /\ LET st == dirCatch(dirBody(vulns, o)) IN
        /\ vulns' = st.vulns
        /\ IF st.thrown THEN secReject
           ELSE /\ secPc' = "file"
                /\ idx' = 1
                /\ secRequests' = Append(secRequests, Request("file", sensitiveFiles[1]))
                /\ UNCHANGED secResult
    /\ UNCHANGED headers
    /\ UNCHANGED compVars
    /\ UNCHANGED sslVars

\* the request for sensitive file idx completes; the next one is issued, or
\* checkSecurityHeaders returns after the last
FileResponse(o) ==
    /\ secPc = "file"
    /\ UNCHANGED seoVars
    /\ FileSignals(o) <= signalsLeft
    /\ signalsLeft' = signalsLeft - FileSignals(o)
    /\ LET st == fileCatch(fileBody(vulns, sensitiveFiles[idx], o)) IN
        /\ vulns' = st.vulns
        /\ IF st.thrown THEN secReject
           ELSE IF idx < Len(sensitiveFiles)
           THEN /\ idx' = idx + 1
                /\ secRequests' = Append(secRequests, Request("file", sensitiveFiles[idx + 1]))
                /\ UNCHANGED <<secPc, secResult>>
           ELSE /\ secPc' = "done"
                /\ idx' = 0
                /\ secResult' = Returned([headers |-> headers, vulnerabilities |-> st.vulns])
                /\ UNCHANGED secRequests
    /\ UNCHANGED headers
    /\ UNCHANGED compVars
    /\ UNCHANGED sslVars

----------------------------------------------------------------------------
(* The effect and analyzeWebsite *)

\* the effect of [url] runs: with a non-empty url analyzeWebsite resets the
\* state and calls checkSSL and checkSecurityHeaders, then awaits both
Effect ==
    /\ aPc = "mount"
    /\ UNCHANGED seoVars
    /\ IF url.text = ""
       THEN /\ aPc' = "skipped"
            /\ UNCHANGED <<loading, sslData, securityHeaders, vulnerabilities,
                           error, hostname>>
            /\ UNCHANGED sslVars
            /\ UNCHANGED <<secPc, idx, headers, vulns, secRequests, secResult>>
       ELSE /\ loading' = TRUE
            /\ error' = ""
            /\ sslData' = Null
            /\ securityHeaders' = Null
            /\ vulnerabilities' = Null
            /\ hostname' = extractHostname(url)
            /\ sslCall
            /\ secCall(extractHostname(url))
            /\ aPc' = "await"
    /\ UNCHANGED <<url, signalsLeft, parked>>

\* Promise.all taking a null first result for a rejection
allSettled_nullRejects(a, b) ==
    IF a.kind = "throw" THEN a
    ELSE IF b.kind = "throw" THEN b
    ELSE IF a.kind = "return" /\ a.value = Null THEN Thrown("no ssl result")
    ELSE IF a.kind = "return" /\ b.kind = "return"
         THEN Returned(<<a.value, b.value>>)
    ELSE Pending

\* Promise.all not waiting for the first promise: settled as soon as the second
\* is, with null for a first result that is not there yet
allSettled_secondOnly(a, b) ==
    IF a.kind = "throw" THEN a
    ELSE IF b.kind = "throw" THEN b
    ELSE IF b.kind = "return"
         THEN Returned(<<IF a.kind = "return" THEN a.value ELSE Null, b.value>>)
    ELSE Pending

\* Promise.all staying pending while the first result is null
allSettled_needsReport(a, b) ==
    IF a.kind = "throw" THEN a
    ELSE IF b.kind = "throw" THEN b
    ELSE IF a.kind = "return" /\ a.value # Null /\ b.kind = "return"
         THEN Returned(<<a.value, b.value>>)
    ELSE Pending

\* Promise.all settles: fulfilled once both promises are, rejected as soon as
\* one is
allSettled(a, b) ==
    IF a.kind = "throw" THEN a
    ELSE IF b.kind = "throw" THEN b
    ELSE IF a.kind = "return" /\ b.kind = "return"
         THEN Returned(<<a.value, b.value>>)
    ELSE Pending

\* analyzeWebsite resumes after the await: it publishes the results, or the
\* error; finally loading is reset
AnalyzeResume ==
    /\ aPc = "await"
    /\ UNCHANGED seoVars
    /\ LET all == allSettled(sslResult, secResult) IN
        /\ all # Pending
        /\ IF all.kind = "return"
           THEN /\ sslData' = all.value[1]
                /\ securityHeaders' = Some(all.value[2].headers)
                /\ vulnerabilities' = Some(all.value[2].vulnerabilities)
                /\ UNCHANGED error
           ELSE /\ error' = "Analysis failed"
                /\ UNCHANGED <<sslData, securityHeaders, vulnerabilities>>
    /\ loading' = FALSE
    /\ aPc' = "done"
    /\ UNCHANGED <<url, hostname, parked>>
    /\ UNCHANGED sslVars
    /\ UNCHANGED secVars

----------------------------------------------------------------------------
(* Specifications *)

\* the component as constructed, before its effect has run
Init ==
    /\ url \in Urls
    /\ loading = FALSE
    /\ sslData = Null
    /\ securityHeaders = Null
    /\ vulnerabilities = Null
    /\ error = ""
    /\ aPc = "mount"
    /\ hostname = ""
    /\ parked = <<>>
    /\ sslPc = "idle"
    /\ attempts = 0
    /\ sslTimers = 0
    /\ sslPolls = 0
    /\ sslElapsed = 0
    /\ sslResult = Pending
    /\ secPc = "idle"
    /\ idx = 0
    /\ headers = nullHeaders
    /\ vulns = noVulns
    /\ secRequests = <<>>
    /\ secResult = Pending
    /\ signalsLeft = MaxSignals
    /\ ScriptNotRun

Next ==
    \/ Effect
    \/ \E r \in StartOutcomes : StartResponse(r)
    \/ TimerFires
    \/ \E r \in PollOutcomes : PollResponse(r)
    \/ \E o \in HeaderOutcomes : HeaderResponse(o)
    \/ \E o \in AdminOutcomes : AdminResponse(o)
    \/ \E o \in DirOutcomes : DirResponse(o)
    \/ \E o \in FileOutcomes : FileResponse(o)
    \/ AnalyzeResume

Spec == Init /\ [][Next]_vars

\* every request that was issued is answered or fails, every timer that was
\* set fires, and a continuation that can run does run
Fairness ==
    /\ WF_vars(\E r \in StartOutcomes : StartResponse(r))
    /\ WF_vars(TimerFires)
    /\ WF_vars(\E r \in PollOutcomes : PollResponse(r))
    /\ WF_vars(\E o \in HeaderOutcomes : HeaderResponse(o))
    /\ WF_vars(\E o \in AdminOutcomes : AdminResponse(o))
    /\ WF_vars(\E o \in DirOutcomes : DirResponse(o))
    /\ WF_vars(\E o \in FileOutcomes : FileResponse(o))
    /\ WF_vars(AnalyzeResume)

SpecLive == Init /\ [][Next]_vars /\ Fairness

\* the scan on its own: the analysis has started and the start request of
\* checkSSL has already failed, so that only checkSecurityHeaders is running
InitSec ==
    /\ url \in { u \in Urls : u.text # "" }
    /\ loading = TRUE
    /\ sslData = Null
    /\ securityHeaders = Null
    /\ vulnerabilities = Null
    /\ error = ""
    /\ aPc = "await"
    /\ hostname = extractHostname(url)
    /\ parked = <<>>
    /\ sslPc = "done"
    /\ attempts = 0
    /\ sslTimers = 0
    /\ sslPolls = 0
    /\ sslElapsed = 0
    /\ sslResult = Returned(Null)
    /\ secPc = "header"
    /\ idx = 0
    /\ headers = nullHeaders
    /\ vulns = noVulns
    /\ secRequests = << [kind |-> "header", host |-> extractHostname(url), path |-> ""] >>
    /\ secResult = Pending
    /\ signalsLeft = MaxProbeSignals
    /\ ScriptNotRun

NextSec ==
    \/ \E o \in HeaderOutcomes : HeaderResponse(o)
    \/ \E o \in AdminOutcomes : AdminResponse(o)
    \/ \E o \in DirOutcomes : DirResponse(o)
    \/ \E o \in FileOutcomes : FileResponse(o)
    \/ AnalyzeResume

SpecSec == InitSec /\ [][NextSec]_vars

----------------------------------------------------------------------------
(* A change of the url prop while an analysis is in flight *)

\* how many superseded analyses may be in flight at once
MaxParked == 1

\* the urls the prop may change to
LaterUrls == { [text |-> "https://example.org/a", host |-> "example.org", valid |-> TRUE] }

\* the analysis whose continuations the actions above run, as one value
Current ==
    [aPc |-> aPc, hostname |-> hostname,
     sslPc |-> sslPc, attempts |-> attempts, sslTimers |-> sslTimers,
     sslPolls |-> sslPolls, sslElapsed |-> sslElapsed, sslResult |-> sslResult,
     secPc |-> secPc, idx |-> idx, headers |-> headers, vulns |-> vulns,
     secRequests |-> secRequests, secResult |-> secResult,
     signalsLeft |-> signalsLeft]

\* the url prop changes to u while an analysis is in flight: the effect of
\* [url] runs again and calls analyzeWebsite for u; the effect has no cleanup,
\* so the analysis of the earlier url stays in the event loop
UrlChange(u) ==
    /\ aPc = "await"
    /\ UNCHANGED seoVars
    /\ Len(parked) < MaxParked
    /\ u # url
    /\ url' = u
    /\ parked' = Append(parked, Current)
    /\ loading' = TRUE
    /\ error' = ""
    /\ sslData' = Null
    /\ securityHeaders' = Null
    /\ vulnerabilities' = Null
    /\ hostname' = extractHostname(u)
    /\ sslCall
    /\ secCall(extractHostname(u))
    /\ aPc' = "await"
    /\ signalsLeft' = MaxSignals

\* the event loop turns to analysis i of the earlier urls: its continuations
\* are the ones that run next
Switch(i) ==
    /\ i \in 1..Len(parked)
    /\ UNCHANGED seoVars
    /\ parked' = [parked EXCEPT ![i] = Current]
    /\ aPc' = parked[i].aPc
    /\ hostname' = parked[i].hostname
    /\ sslPc' = parked[i].sslPc
    /\ attempts' = parked[i].attempts
    /\ sslTimers' = parked[i].sslTimers
    /\ sslPolls' = parked[i].sslPolls
    /\ sslElapsed' = parked[i].sslElapsed
    /\ sslResult' = parked[i].sslResult
    /\ secPc' = parked[i].secPc
    /\ idx' = parked[i].idx
    /\ headers' = parked[i].headers
    /\ vulns' = parked[i].vulns
    /\ secRequests' = parked[i].secRequests
    /\ secResult' = parked[i].secResult
    /\ signalsLeft' = parked[i].signalsLeft
    /\ UNCHANGED <<url, loading, sslData, securityHeaders, vulnerabilities, error>>

\* the answers to a poll that end the TLS check
TerminalPolls ==
    { r \in PollOutcomes :
        r.kind = "error" \/ ~r.ok \/ r.json = Null
        \/ r.json[1].status \in {"READY", "ERROR"} }

\* the component with a url that changes, against a grading service that
\* answers the first poll with a terminal status
NextRace ==
    \/ Effect
    \/ \E u \in LaterUrls : UrlChange(u)
    \/ \E i \in 1..MaxParked : Switch(i)
    \/ \E r \in StartOutcomes : StartResponse(r)
    \/ TimerFires
    \/ \E r \in TerminalPolls : PollResponse(r)
    \/ \E o \in HeaderOutcomes : HeaderResponse(o)
    \/ \E o \in AdminOutcomes : AdminResponse(o)
    \/ \E o \in DirOutcomes : DirResponse(o)
    \/ \E o \in FileOutcomes : FileResponse(o)
    \/ AnalyzeResume

SpecRace == Init /\ [][NextRace]_vars

----------------------------------------------------------------------------
(* The script of src/unnamed/part_000: values *)

\* the component of src/securityTab.tsx, not rendered
TabNotRendered ==
    /\ url = [text |-> "", host |-> "", valid |-> FALSE]
    /\ loading = FALSE
    /\ sslData = Null
    /\ securityHeaders = Null
    /\ vulnerabilities = Null
    /\ error = ""
    /\ aPc = "mount"
    /\ hostname = ""
    /\ parked = <<>>
    /\ sslPc = "idle"
    /\ attempts = 0
    /\ sslTimers = 0
    /\ sslPolls = 0
    /\ sslElapsed = 0
    /\ sslResult = Pending
    /\ secPc = "idle"
    /\ idx = 0
    /\ headers = nullHeaders
    /\ vulns = noVulns
    /\ secRequests = <<>>
    /\ secResult = Pending
    /\ signalsLeft = 0

\* a JavaScript number that a division produced: NaN, or an exact fraction
NaN == [nan |-> TRUE, num |-> 0, den |-> 1]
Num(a, b) == [nan |-> FALSE, num |-> a, den |-> b]

\* a / b for counts a <= b: 0 / 0 is NaN
jsDiv(a, b) == IF b = 0 THEN NaN ELSE Num(a, b)
\* x * k
jsTimes(x, k) == IF x.nan THEN NaN ELSE Num(x.num * k, x.den)

Min(a, b) == IF a <= b THEN a ELSE b

\* Array.prototype.slice(from, to)
slice(s, from, to) == SubSeq(s, from + 1, Min(to, Len(s)))

\* attr(name) || dflt: the attribute is absent (Null) or has a text
attrOr(a, dflt) == IF a = Null \/ a = Some("") THEN dflt ELSE a[1]

\* the parts of a loaded document that the helpers select
EmptyDocument ==
    [text |-> "",            \* text of the h1-h6, span, p and li elements of body
     img |-> <<>>,           \* the img elements: their src and alt attributes
     a |-> <<>>,             \* the a elements: their href attribute
     title |-> "",           \* text of the title element
     description |-> Null,   \* content of meta[name=description]
     h1 |-> <<>>,            \* texts of the h1 elements
     h2 |-> <<>>,            \* texts of the h2 elements
     canonical |-> Null,     \* href of link[rel=canonical]
     robots |-> Null,        \* content of meta[name=robots]
     og |-> 0,               \* number of meta[property^="og:"] elements
     schema |-> 0]           \* number of script[type="application/ld+json"] elements

----------------------------------------------------------------------------
(* analyzeImages *)

\* Math.round with floor in its place
MathRound_floor(x) == IF x.nan THEN NaN ELSE Num(x.num \div x.den, 1)

\* Math.round of a non-negative number: the nearest integer, halves upwards
MathRound(x) == IF x.nan THEN NaN ELSE Num((2 * x.num + x.den) \div (2 * x.den), 1)

\* x || 0 for an integral x
orZero(x) == IF x.nan \/ x.num = 0 THEN 0 ELSE x.num \div x.den

analyzeImages(d) ==
    LET images == [i \in 1..Len(d.img) |->
                     [src |-> attrOr(d.img[i].src, ""), alt |-> attrOr(d.img[i].alt, "")]]
        noAlt(img) == img.alt = ""
        missingAlt == Len(SelectSeq(images, noAlt))
    IN  [total |-> Len(images),
         missingAlt |-> missingAlt,
         missingAltPercentage |->
             orZero(MathRound(jsTimes(jsDiv(missingAlt, Len(images)), 100))),
         examples |-> slice(SelectSeq(images, noAlt), 0, 2)]

\* longest list of img elements in a document
MaxImages == 3

ImageAttrs ==
    [src : {Null, Some("a.png"), Some("b.png")}, alt : {Null, Some(""), Some("logo")}]

\* the sequences over S of length at most n
RECURSIVE SeqsUpTo(_, _)
SeqsUpTo(S, n) ==
    IF n = 0 THEN {<<>>}
    ELSE LET shorter == SeqsUpTo(S, n - 1)
         IN  shorter \cup { Append(s, x) : s \in shorter, x \in S }

ImageDocuments ==
    { [EmptyDocument EXCEPT !.img = imgs] : imgs \in SeqsUpTo(ImageAttrs, MaxImages) }

CallAnalyzeImages ==
    /\ dom # Null
    /\ summary = Null
    /\ summary' = Some(analyzeImages(dom[1]))
    /\ UNCHANGED <<seoUrl, seoPc, dom, seoRequests, seoResult>>
    /\ UNCHANGED tabVars

InitImages ==
    /\ TabNotRendered
    /\ seoUrl = ""
    /\ seoPc = "idle"
    /\ dom \in { Some(d) : d \in ImageDocuments }
    /\ seoRequests = <<>>
    /\ seoResult = Pending
    /\ summary = Null

NextImages == CallAnalyzeImages

SpecImages == InitImages /\ [][NextImages]_vars

----------------------------------------------------------------------------
(* analyzeLinks *)

startsWith(text, prefix) ==
    Len(prefix) <= Len(text) /\ SubSeq(text, 1, Len(prefix)) = prefix

\* the longest prefix of text that holds none of the characters in stops
RECURSIVE upTo(_, _)
upTo(text, stops) ==
    IF text = "" \/ Head(text) \in stops THEN ""
    ELSE Head(text) \o upTo(Tail(text), stops)

\* new URL(text) for an http(s) url without port or credentials: throws
\* (ok = FALSE) when the text has no scheme or no host
parseURL(text) ==
    LET scheme == IF startsWith(text, "https://") THEN "https://"
                  ELSE IF startsWith(text, "http://") THEN "http://" ELSE ""
        host == upTo(SubSeq(text, Len(scheme) + 1, Len(text)), {"/", "?", "#"})
    IN  IF scheme = "" \/ host = "" THEN [ok |-> FALSE, origin |-> "", hostname |-> ""]
        ELSE [ok |-> TRUE, origin |-> scheme \o host, hostname |-> host]

DigitChars == <<"0", "1", "2", "3", "4", "5", "6", "7", "8", "9">>

\* the decimal digits of a natural number
RECURSIVE digits(_)
digits(n) == IF n < 10 THEN DigitChars[n + 1] ELSE digits(n \div 10) \o DigitChars[(n % 10) + 1]

\* Number.prototype.toFixed(1) of a non-negative number or NaN
toFixed1(x) ==
    IF x.nan THEN "NaN"
    ELSE LET tenths == (20 * x.num + x.den) \div (2 * x.den)
         IN  digits(tenths \div 10) \o "." \o digits(tenths % 10)

\* analyzeLinks throws when new URL(baseUrl) throws
analyzeLinksThrows(baseUrl) == ~parseURL(baseUrl).ok

analyzeLinks(d, baseUrl) ==
    LET hasHref(h) == h # Null
        present == SelectSeq(d.a, hasHref)
        links == [i \in 1..Len(present) |-> present[i][1]]
        domain == parseURL(baseUrl).hostname
        isInternal(href) ==
            href # "" /\ (includes(href, domain) \/ startsWith(href, "/") \/ startsWith(href, "#"))
        internal == Len(SelectSeq(links, isInternal))
    IN  [total |-> Len(links),
         internal |-> internal,
         external |-> Len(links) - internal,
         ratio |-> toFixed1(jsTimes(jsDiv(internal, Len(links)), 100)) \o "% internal"]

\* longest list of a elements in a document
MaxLinks == 3

Hrefs ==
    {Null, Some(""), Some("/about"), Some("#top"),
     Some("https://www.ex.io/x"), Some("https://other.org/")}

LinkDocuments ==
    { [EmptyDocument EXCEPT !.a = hrefs] : hrefs \in SeqsUpTo(Hrefs, MaxLinks) }

CallAnalyzeLinks ==
    /\ dom # Null
    /\ summary = Null
    /\ ~analyzeLinksThrows(seoUrl)
    /\ summary' = Some(analyzeLinks(dom[1], seoUrl))
    /\ UNCHANGED <<seoUrl, seoPc, dom, seoRequests, seoResult>>
    /\ UNCHANGED tabVars

InitLinks ==
    /\ TabNotRendered
    /\ seoUrl = "https://www.ex.io"
    /\ seoPc = "idle"
    /\ dom \in { Some(d) : d \in LinkDocuments }
    /\ seoRequests = <<>>
    /\ seoResult = Pending
    /\ summary = Null

NextLinks == CallAnalyzeLinks

SpecLinks == InitLinks /\ [][NextLinks]_vars

----------------------------------------------------------------------------
(* getCommonKeywords *)

UpperCase == "ABCDEFGHIJKLMNOPQRSTUVWXYZ"
LowerCase == "abcdefghijklmnopqrstuvwxyz"
Letters == { SubSeq(LowerCase, i, i) : i \in 1..Len(LowerCase) }
Whitespace == {" ", "\n"}

lowerChar(c) ==
    IF \E i \in 1..Len(UpperCase) : SubSeq(UpperCase, i, i) = c
    THEN LET i == CHOOSE i \in 1..Len(UpperCase) : SubSeq(UpperCase, i, i) = c
         IN  SubSeq(LowerCase, i, i)
    ELSE c

RECURSIVE toLowerCase(_)
toLowerCase(text) ==
    IF text = "" THEN "" ELSE lowerChar(Head(text)) \o toLowerCase(Tail(text))

\* String.prototype.split: cur is the token being read, inSep tells that the
\* previous character was a separator; a regular expression with + takes a
\* run of separators as one (collapse)
RECURSIVE splitRest(_, _, _, _, _)
splitRest(text, seps, collapse, cur, inSep) ==
    IF text = "" THEN <<cur>>
    ELSE IF Head(text) \in seps
         THEN IF collapse /\ inSep
              THEN splitRest(Tail(text), seps, collapse, "", TRUE)
              ELSE <<cur>> \o splitRest(Tail(text), seps, collapse, "", TRUE)
         ELSE splitRest(Tail(text), seps, collapse, cur \o Head(text), FALSE)

split(text, seps, collapse) == splitRest(text, seps, collapse, "", FALSE)

\* word.replace(/[^a-z]/g, '')
RECURSIVE stripNonLetters(_)
stripNonLetters(word) ==
    IF word = "" THEN ""
    ELSE (IF Head(word) \in Letters THEN Head(word) ELSE "") \o stripNonLetters(Tail(word))

\* Array.prototype.join
RECURSIVE join(_, _)
join(list, sep) ==
    IF list = <<>> THEN ""
    ELSE IF Len(list) = 1 THEN list[1]
    ELSE list[1] \o sep \o join(Tail(list), sep)

\* the values a property of wordCount can have: undefined, a number, the
\* function Object that {} inherits as "constructor", and the string that
\* adding 1 to that function n times gives
Undefined == [type |-> "undefined", n |-> 0]
Count(n) == [type |-> "number", n |-> n]
ObjectFunction == [type |-> "function", n |-> 0]
NativeText(n) == [type |-> "string", n |-> n]

\* the properties of Object.prototype whose name is made of a-z only
InheritedNames == {"constructor"}

\* wordCount[word]: the object is the list of its own entries in insertion order
lookup(wordCount, word) ==
    IF \E i \in 1..Len(wordCount) : wordCount[i].key = word
    THEN wordCount[CHOOSE i \in 1..Len(wordCount) : wordCount[i].key = word].value
    ELSE IF word \in InheritedNames THEN ObjectFunction ELSE Undefined

\* (v || 0) + 1
plusOne(v) ==
    CASE v.type = "undefined" -> Count(1)
      [] v.type = "number" -> Count(v.n + 1)
      [] v.type = "function" -> NativeText(1)
      [] v.type = "string" -> NativeText(v.n + 1)

\* wordCount[word] = value
assign(wordCount, word, value) ==
    IF \E i \in 1..Len(wordCount) : wordCount[i].key = word
    THEN [i \in 1..Len(wordCount) |->
            IF wordCount[i].key = word THEN [key |-> word, value |-> value] ELSE wordCount[i]]
    ELSE Append(wordCount, [key |-> word, value |-> value])

\* words.forEach(...) from wordCount = {}
RECURSIVE countWords(_)
countWords(words) ==
    IF words = <<>> THEN <<>>
    ELSE LET before == countWords(SubSeq(words, 1, Len(words) - 1))
             word == stripNonLetters(words[Len(words)])
         IN  assign(before, word, plusOne(lookup(before, word)))

\* (a, b) => b[1] - a[1], NaN taken as +0 as Array.prototype.sort does
compareFn(a, b) ==
    IF a.value.type = "number" /\ b.value.type = "number" THEN b.value.n - a.value.n ELSE 0

\* the comparator is a consistent comparator for the entries
consistent(entries) ==
    \A i, j, k \in 1..Len(entries) :
        LET ab == compareFn(entries[i], entries[j])
            bc == compareFn(entries[j], entries[k])
            ac == compareFn(entries[i], entries[k])
        IN  /\ (ab = 0 /\ bc = 0) => ac = 0
            /\ (ab < 0 /\ bc < 0) => ac < 0
            /\ (ab > 0 /\ bc > 0) => ac > 0

\* x put into a sorted list behind the entries that do not sort after it
insert(sorted, x) ==
    LET later == { i \in 1..Len(sorted) : compareFn(sorted[i], x) > 0 }
        at == IF later = {} THEN Len(sorted) + 1
              ELSE CHOOSE i \in later : \A j \in later : i <= j
    IN  SubSeq(sorted, 1, at - 1) \o <<x>> \o SubSeq(sorted, at, Len(sorted))

\* the stable sort of the entries
RECURSIVE stableSort(_)
stableSort(entries) ==
    IF entries = <<>> THEN <<>>
    ELSE insert(stableSort(SubSeq(entries, 1, Len(entries) - 1)), entries[Len(entries)])

\* the orders in which the positions 1..n can be arranged
Arrangements(n) ==
    { p \in [1..n -> 1..n] : \A i, j \in 1..n : p[i] = p[j] => i = j }

\* Array.prototype.sort: stable for a consistent comparator, and an
\* implementation-defined order of the same entries for an inconsistent one
sortOutcomes(entries) ==
    IF consistent(entries) THEN { stableSort(entries) }
    ELSE { [i \in 1..Len(entries) |-> entries[p[i]]] : p \in Arrangements(Len(entries)) }

NoKeywords == "No significant keywords found"

\* the values getCommonKeywords can return for the document
getCommonKeywords(d) ==
    LET text == toLowerCase(d.text)
        isLong(word) == Len(word) > 3
        words == SelectSeq(split(text, Whitespace, TRUE), isLong)
        wordCount == countWords(words)
    IN  { LET top == slice(sorted, 0, 10)
              topKeywords == join([i \in 1..Len(top) |-> top[i].key], " ")
          IN  [description |-> "Top 10 most frequent keywords found on the page",
               keywords |-> IF topKeywords = "" THEN NoKeywords ELSE topKeywords]
          : sorted \in sortOutcomes(wordCount) }

\* longest enumerated text
MaxTextLen == 4

TextAlphabet == {"a", "b", "B", "1", " "}

RECURSIVE TextsUpTo(_)
TextsUpTo(n) ==
    IF n = 0 THEN {""}
    ELSE LET shorter == TextsUpTo(n - 1)
         IN  shorter \cup { s \o c : s \in shorter, c \in TextAlphabet }

\* texts with more words than the enumerated ones can have
LongTexts ==
    {"testing testing testing testing testing",
     "the testing of a testing is testing and testing for testing",
     "Hello, hello WORLD world. (world)",
     "2024 testing",
     "alpha bravo charlie delta echo foxtrot golf hotel india juliet kilo lima lima delta lima",
     "constructor testing testing",
     "constructor alpha bravo bravo"}

KeywordDocuments ==
    { [EmptyDocument EXCEPT !.text = t] : t \in TextsUpTo(MaxTextLen) \cup LongTexts }

CallGetCommonKeywords ==
    /\ dom # Null
    /\ summary = Null
    /\ \E r \in getCommonKeywords(dom[1]) : summary' = Some(r)
    /\ UNCHANGED <<seoUrl, seoPc, dom, seoRequests, seoResult>>
    /\ UNCHANGED tabVars

InitKeywords ==
    /\ TabNotRendered
    /\ seoUrl = ""
    /\ seoPc = "idle"
    /\ dom \in { Some(d) : d \in KeywordDocuments }
    /\ seoRequests = <<>>
    /\ seoResult = Pending
    /\ summary = Null

NextKeywords == CallGetCommonKeywords

SpecKeywords == InitKeywords /\ [][NextKeywords]_vars

----------------------------------------------------------------------------
(* The other helpers of the report *)

\* String.prototype.trim
RECURSIVE trimStart(_)
trimStart(text) ==
    IF text = "" \/ Head(text) \notin Whitespace THEN text ELSE trimStart(Tail(text))
RECURSIVE trimEnd(_)
trimEnd(text) ==
    IF text = "" \/ SubSeq(text, Len(text), Len(text)) \notin Whitespace THEN text
    ELSE trimEnd(SubSeq(text, 1, Len(text) - 1))
trim(text) == trimEnd(trimStart(text))

getMetaDescription(d) ==
    LET description == attrOr(d.description, "")
    IN  [found |-> Len(description) > 0,
         length |-> Len(description),
         content |-> IF description = "" THEN "No meta description found" ELSE description]

getHeadings(d, tag) ==
    LET headings == [i \in 1..Len(d[tag]) |-> trim(d[tag][i])]
    IN  [count |-> Len(headings), examples |-> slice(headings, 0, 5)]

getTitleData(d) ==
    [length |-> Len(d.title),
     content |-> IF d.title = "" THEN "No title found" ELSE d.title]

getCanonicalTag(d) ==
    LET canonical == attrOr(d.canonical, "")
    IN  [found |-> Len(canonical) > 0,
         url |-> IF canonical = "" THEN "No canonical tag found" ELSE canonical]

checkNoIndex(d) ==
    [isNoIndex |-> includes(toLowerCase(attrOr(d.robots, "")), "noindex")]

checkOpenGraph(d) == [found |-> d.og > 0, count |-> d.og]

checkWWWCanonicalization(u) ==
    [hasWWW |-> includes(u, "www."),
     recommendation |->
         "Ensure either www or non-www version redirects to the preferred version"]

checkSchema(d) == [found |-> d.schema > 0, count |-> d.schema]

generateSearchPreview(d, u) ==
    LET title == IF d.title = "" THEN "No title" ELSE d.title
        description == attrOr(d.description, "No description")
    IN  [title |-> title,
         url |-> u,
         description |-> description,
         previewText |-> title \o " - " \o SubSeq(description, 1, Min(100, Len(description)))
                               \o "..."]

----------------------------------------------------------------------------
(* checkRobotsTxt *)

\* the number of matches of a pattern without special characters
RECURSIVE countMatches(_, _)
countMatches(text, pattern) ==
    IF Len(text) < Len(pattern) THEN 0
    ELSE IF startsWith(text, pattern)
         THEN 1 + countMatches(SubSeq(text, Len(pattern) + 1, Len(text)), pattern)
         ELSE countMatches(Tail(text), pattern)

RobotsBodies ==
    {"", "Allow: /", "User-agent: *\nDisallow: /a\nDisallow: /b\n"}

\* axios.get of robots.txt: rejected (no answer, or a status outside 2xx), or
\* a response whose data is the body text, or the value the body was parsed
\* to when it is JSON text (the default transformResponse of axios)
RobotsOutcomes ==
    {NetworkError}
    \cup { [kind |-> "response", data |-> [type |-> "string", text |-> b]] : b \in RobotsBodies }
    \cup { [kind |-> "response", data |-> [type |-> "object", text |-> ""]] }

\* the try block after the request: data.match is not a function unless data
\* is a string
robotsBody(o) ==
    IF o.kind = "error" \/ o.data.type # "string"
    THEN [thrown |-> TRUE, value |-> [exists |-> FALSE]]
    ELSE [thrown |-> FALSE,
          value |-> [exists |-> TRUE,
                     disallowCount |-> countMatches(o.data.text, "Disallow:")]]

\* the catch block of checkRobotsTxt
robotsCatch(st) ==
    IF st.thrown THEN [thrown |-> FALSE, value |-> [exists |-> FALSE]] ELSE st

----------------------------------------------------------------------------
(* analyzeSEO *)

\* the urls the script is run with; the second has no scheme
SeoUrls == {"https://www.ex.io", "ex.io/p"}

SeoTexts == {"", "testing testing site", "constructor alpha bravo bravo"}
SeoImages ==
    { <<>>,
      << [src |-> Some("a.png"), alt |-> Null] >>,
      << [src |-> Some("a.png"), alt |-> Some("logo")], [src |-> Null, alt |-> Some("")] >> }
SeoLinks == { <<>>, << Some("/about") >>, << Some("https://other.org/"), Some("#top") >> }
SeoHeads ==
    { [title |-> "", description |-> Null, h1 |-> <<>>, h2 |-> <<>>,
       canonical |-> Null, robots |-> Null, og |-> 0, schema |-> 0],
      [title |-> "Home", description |-> Some("A site"), h1 |-> <<" Welcome ">>,
       h2 |-> <<"News", "">>, canonical |-> Some("https://www.ex.io/"),
       robots |-> Some("NOINDEX, follow"), og |-> 2, schema |-> 1] }

SeoDocuments ==
    { [text |-> t, img |-> i, a |-> l, title |-> h.title, description |-> h.description,
       h1 |-> h.h1, h2 |-> h.h2, canonical |-> h.canonical, robots |-> h.robots,
       og |-> h.og, schema |-> h.schema]
      : t \in SeoTexts, i \in SeoImages, l \in SeoLinks, h \in SeoHeads }

\* axios.get of the page: rejected, or a response whose data is the text of an
\* html document, or a value parsed from a JSON body, which cheerio.load
\* either rejects (loads = FALSE) or loads as an empty document
PageOutcomes ==
    {NetworkError}
    \cup { [kind |-> "response", data |-> "html", loads |-> TRUE, document |-> d]
           : d \in SeoDocuments }
    \cup { [kind |-> "response", data |-> "object", loads |-> b, document |-> EmptyDocument]
           : b \in BOOLEAN }

ErrorReport == [error |-> "Failed to analyze the page"]

ReportFields ==
    {"commonKeywords", "metaDescription", "headings", "images", "links", "title", "metaTags",
     "technicalSEO", "searchPreview"}

\* the object of lines 11-32
fullReport(d, u, keywords, robotsTxt) ==
    [commonKeywords |-> keywords,
     metaDescription |-> getMetaDescription(d),
     headings |-> [h1 |-> getHeadings(d, "h1"), h2 |-> getHeadings(d, "h2")],
     images |-> analyzeImages(d),
     links |-> analyzeLinks(d, u),
     title |-> getTitleData(d),
     metaTags |-> [canonical |-> getCanonicalTag(d),
                   noindex |-> checkNoIndex(d),
                   openGraph |-> checkOpenGraph(d)],
     technicalSEO |-> [wwwCanonicalization |-> checkWWWCanonicalization(u),
                       robotsTxt |-> robotsTxt,
                       schemaMarkup |-> checkSchema(d)],
     searchPreview |-> generateSearchPreview(d, u)]

\* the try block of analyzeSEO throws before it calls checkRobotsTxt
pageThrows(o, u) == o.kind = "error" \/ ~o.loads \/ analyzeLinksThrows(u)

\* analyzeSEO without its catch block
seoCatch_rethrow(thrown) == IF thrown THEN Thrown("error") ELSE Pending

\* the catch block of analyzeSEO: how the promise settles when the try block
\* has thrown
seoCatch(thrown) == IF thrown THEN Returned(ErrorReport) ELSE Pending

\* analyzeSEO(url) is called: the page is requested
CallAnalyzeSEO ==
    /\ seoPc = "idle"
    /\ seoPc' = "page"
    /\ seoRequests' = Append(seoRequests, seoUrl)
    /\ UNCHANGED <<seoUrl, dom, seoResult, summary>>
    /\ UNCHANGED tabVars

\* the page request completes: the document is loaded and the report is
\* built up to the call of checkRobotsTxt, which requests robots.txt
PageResponse(o) ==
    /\ seoPc = "page"
    /\ dom' = IF o.kind = "error" \/ ~o.loads THEN Null ELSE Some(o.document)
    /\ LET out == seoCatch(pageThrows(o, seoUrl))
       IN  IF out # Pending
           THEN /\ seoResult' = out
                /\ seoPc' = "done"
                /\ UNCHANGED <<seoRequests, summary>>
           ELSE /\ \E k \in getCommonKeywords(o.document) : summary' = Some(k)
                /\ seoRequests' = Append(seoRequests, parseURL(seoUrl).origin \o "/robots.txt")
                /\ seoPc' = "robots"
                /\ UNCHANGED seoResult
    /\ UNCHANGED seoUrl
    /\ UNCHANGED tabVars

\* the robots.txt request completes: checkRobotsTxt returns, the rest of the
\* report is built and analyzeSEO returns it
RobotsResponse(o) ==
    /\ seoPc = "robots"
    /\ LET st == robotsCatch(robotsBody(o))
       IN  seoResult' = IF st.thrown THEN seoCatch(TRUE)
                        ELSE Returned(fullReport(dom[1], seoUrl, summary[1], st.value))
    /\ seoPc' = "done"
    /\ UNCHANGED <<seoUrl, dom, seoRequests, summary>>
    /\ UNCHANGED tabVars

InitSEO ==
    /\ TabNotRendered
    /\ seoUrl \in SeoUrls
    /\ seoPc = "idle"
    /\ dom = Null
    /\ seoRequests = <<>>
    /\ seoResult = Pending
    /\ summary = Null

NextSEO ==
    \/ CallAnalyzeSEO
    \/ \E o \in PageOutcomes : PageResponse(o)
    \/ \E o \in RobotsOutcomes : RobotsResponse(o)

SpecSEO == InitSEO /\ [][NextSEO]_vars

----------------------------------------------------------------------------
(* Properties of checkSSL *)

\* how far checkSSL is from its return: 0 once it has returned, and never
\* more than 2 + 2 * 30
sslRank ==
    CASE sslPc = "idle"  -> 63
      [] sslPc = "start" -> 62
      [] sslPc = "wait"  -> 2 * (30 - attempts) + 1
      [] sslPc = "poll"  -> 2 * (30 - attempts)
      [] sslPc = "done"  -> 0

\* the start and poll outcomes that are failures of the request
FailedStarts ==
    { NetworkError, [kind |-> "response", ok |-> FALSE] }
FailedPolls ==
    { NetworkError,
      [kind |-> "response", ok |-> FALSE, json |-> Null],
      [kind |-> "response", ok |-> TRUE, json |-> Null] }
\* the poll outcomes whose payload has status READY, has status ERROR, has
\* another status
ReadyPolls ==
    { [kind |-> "response", ok |-> TRUE,
       json |-> Some([status |-> "READY", endpoints |-> e])] : e \in EndpointLists }
ErrorPolls ==
    { [kind |-> "response", ok |-> TRUE,
       json |-> Some([status |-> "ERROR", endpoints |-> <<>>])] }
OtherPolls ==
    { [kind |-> "response", ok |-> TRUE,
       json |-> Some([status |-> st, endpoints |-> <<>>])] : st \in OtherStatuses }

\* once checkSSL has returned it issues no wait and no poll and its result
\* does not change
SslDoneIsFinal == sslPc = "done" => UNCHANGED sslVars

\* C1: checkSSL performs at most 30 wait-then-poll iterations (at most 30
\* waits of 10 time units, at most 30 polls) and then returns: every step of
\* checkSSL brings it strictly closer to its return, which it has reached when
\* the counter is at 30, with a value and not an exception.
C1_BoundedPolling ==
    /\ [](/\ sslTimers <= 30
          /\ sslPolls <= 30
          /\ sslElapsed <= 30 * 10
          /\ sslElapsed = 10 * sslPolls
          /\ sslRank \in 0..63
          /\ (attempts >= 30 => sslPc = "done")
          /\ (sslPc = "done" => sslResult.kind = "return"))
    /\ [][sslVars' # sslVars => sslRank' < sslRank]_vars

\* C1 witness: the attempt budget is exhausted after 30 waits and 30 polls
C1_Witness ==
    /\ sslPc = "done"
    /\ sslElapsed = 300
    /\ sslPolls = 30
    /\ sslTimers = 30

\* C2: the first poll whose status is READY ends the loop: checkSSL returns
\* that poll's payload, endpoints included, and issues no further wait or poll.
C2_ReadyReturnsPayload ==
    /\ [][\A r \in ReadyPolls :
            PollResponse(r)
            => /\ sslPc' = "done"
               /\ sslResult' = Returned(Some(r.json[1]))
               /\ sslResult'.value[1].endpoints = r.json[1].endpoints
               /\ UNCHANGED <<sslTimers, sslPolls, attempts>>]_vars
    /\ [][SslDoneIsFinal]_vars
    /\ [](sslResult.kind = "return" /\ sslResult.value # Null
            => sslPc = "done" /\ sslResult.value[1].status = "READY")

\* C2 witness: READY arrived on the third poll with two endpoints
C2_Witness ==
    /\ sslPc = "done"
    /\ sslPolls = 3
    /\ attempts = 2
    /\ sslResult.kind = "return"
    /\ sslResult.value # Null
    /\ Len(sslResult.value[1].endpoints) = 2

\* C3: a poll with status ERROR yields a null result and no further poll; a
\* poll with any other non-READY status increments the counter by exactly 1
\* and leaves the client polling (a new wait is started) unless the counter
\* has reached 30, in which case the result is null; checkSSL never throws.
C3_ErrorOtherTimeout ==
    /\ [](sslResult.kind # "throw")
    /\ [][\A r \in ErrorPolls :
            PollResponse(r)
            => /\ sslPc' = "done"
               /\ sslResult' = Returned(Null)
               /\ UNCHANGED <<sslTimers, sslPolls, attempts>>]_vars
    /\ [][\A r \in OtherPolls :
            PollResponse(r)
            => /\ attempts' = attempts + 1
               /\ UNCHANGED sslPolls
               /\ IF attempts + 1 < 30
                  THEN /\ sslPc' = "wait"
                       /\ sslResult' = Pending
                       /\ sslTimers' = sslTimers + 1
                  ELSE /\ sslPc' = "done"
                       /\ sslResult' = Returned(Null)
                       /\ UNCHANGED sslTimers]_vars
    /\ [][SslDoneIsFinal]_vars

\* C3 witness: the counter reached 30 and the result is null
C3_Witness ==
    /\ attempts = 30
    /\ sslResult = Returned(Null)
    /\ sslPc = "done"

\* C4: a failed start request (network error or non-OK response) makes
\* checkSSL return null without any wait or poll; a failed poll request on any
\* attempt makes it return null with no further wait or poll.
C4_RequestFailureIsNull ==
    /\ [][\A r \in FailedStarts :
            StartResponse(r)
            => /\ sslPc' = "done"
               /\ sslResult' = Returned(Null)
               /\ sslTimers' = 0
               /\ sslPolls' = 0]_vars
    /\ [][\A r \in {NetworkError, [kind |-> "response", ok |-> FALSE, json |-> Null]} :
            PollResponse(r)
            => /\ sslPc' = "done"
               /\ sslResult' = Returned(Null)
               /\ UNCHANGED <<sslTimers, sslPolls, attempts>>]_vars
    /\ [][SslDoneIsFinal]_vars
    /\ [](sslPc = "done" /\ sslPolls = 0 => sslTimers = 0 /\ sslResult = Returned(Null))

\* C4 witness: checkSSL has returned null without a wait or a poll
C4_Witness ==
    /\ sslPc = "done"
    /\ sslResult = Returned(Null)
    /\ sslTimers = 0
    /\ sslPolls = 0

----------------------------------------------------------------------------
(* Properties of the analysis as a whole *)

\* C5: the three sub-results are populated independently: whatever the outcome
\* of the TLS check, a completed analysis has non-null securityHeaders and
\* vulnerabilities, namely those checkSecurityHeaders returned; and whatever
\* the probes did, sslData is exactly what checkSSL returned.
C5_IndependentResults ==
    aPc = "done" =>
        /\ sslResult.kind = "return"
        /\ secResult.kind = "return"
        /\ sslData = sslResult.value
        /\ securityHeaders # Null
        /\ vulnerabilities # Null
        /\ securityHeaders = Some(secResult.value.headers)
        /\ vulnerabilities = Some(secResult.value.vulnerabilities)
        /\ secResult.value.headers = headers
        /\ secResult.value.vulnerabilities = vulns

\* C5 witness: the TLS check ran out of attempts and the results of the scan
\* are published all the same
C5_Witness ==
    /\ aPc = "done"
    /\ attempts = 30
    /\ sslData = Null
    /\ securityHeaders # Null
    /\ vulnerabilities # Null

\* C6: no probe failure is surfaced as an error: whatever requests fail, the
\* error indicator stays empty and neither checkSSL nor checkSecurityHeaders
\* ever rejects, and the analysis completes with loading reset after all 22
\* requests of the scan; each failed check leaves only its default: a failed
\* header request the five null fields, a failed admin, directory or file
\* request the vulnerabilities as they were (the scan going on to its next
\* request), a failed TLS start or poll a null TLS result.
C6_NoFailureSurfaced ==
    /\ [](/\ error = ""
          /\ sslResult.kind # "throw"
          /\ secResult.kind # "throw"
          /\ (aPc = "done" =>
                /\ ~loading
                /\ sslPc = "done"
                /\ secPc = "done"
                /\ Len(secRequests) = 22
                /\ securityHeaders # Null
                /\ vulnerabilities # Null))
    /\ [][/\ HeaderResponse(NetworkError)
                => headers' = nullHeaders /\ secPc' = "admin"
          /\ AdminResponse(NetworkError)
                => /\ vulns' = vulns
                   /\ secResult' = Pending
                   /\ Len(secRequests') = Len(secRequests) + 1
          /\ \A o \in {NetworkError, [kind |-> "response", body |-> Null]} :
                DirResponse(o)
                => /\ vulns' = vulns
                   /\ ~vulns'.directoryIndexing
                   /\ secPc' = "file"
          /\ FileResponse(NetworkError)
                => /\ vulns' = vulns
                   /\ secResult'.kind # "throw"
                   /\ (idx < 11 => Len(secRequests') = Len(secRequests) + 1)
          /\ \A r \in FailedStarts :
                StartResponse(r) => sslResult' = Returned(Null)
          /\ \A r \in FailedPolls :
                PollResponse(r) => sslResult' = Returned(Null)]_vars

\* C6 witness: the TLS start request failed, the scan found nothing, and the
\* analysis has completed without an error
C6_Witness ==
    /\ aPc = "done"
    /\ error = ""
    /\ ~loading
    /\ sslPolls = 0
    /\ sslData = Null
    /\ securityHeaders = Some(nullHeaders)
    /\ vulnerabilities = Some(noVulns)

----------------------------------------------------------------------------
(* Properties of the surface scan *)

\* the paths of the requests checkSecurityHeaders issues, in order
ScanPlan ==
    << [kind |-> "header", path |-> ""] >>
    \o [i \in 1..9 |-> [kind |-> "admin", path |-> adminPaths[i]]]
    \o << [kind |-> "dir", path |-> "/"] >>
    \o [i \in 1..11 |-> [kind |-> "file", path |-> sensitiveFiles[i]]]

\* the number of requests of a kind in the log
Issued(kind) == Cardinality({ i \in 1..Len(secRequests) : secRequests[i].kind = kind })

\* the number of requests issued when the scan is at a position
ScanPosition ==
    CASE secPc = "idle"   -> 0
      [] secPc = "header" -> 1
      [] secPc = "admin"  -> 1 + idx
      [] secPc = "dir"    -> 11
      [] secPc = "file"   -> 11 + idx
      [] secPc = "done"   -> 22

\* C7: whatever the outcomes, the scan issues exactly 9 admin path requests,
\* 1 directory index request and 11 sensitive file requests, each catalogue
\* path exactly once and in catalogue order; a failed request never aborts
\* the remaining ones (the scan returns only after all 21).
C7_FixedRequestCount ==
    /\ Len(adminPaths) = 9
    /\ Len(sensitiveFiles) = 11
    /\ Len(secRequests) = ScanPosition
    /\ \A i \in 1..Len(secRequests) :
          /\ secRequests[i].kind = ScanPlan[i].kind
          /\ secRequests[i].path = ScanPlan[i].path
    /\ \A i, j \in 1..Len(secRequests) :
          i # j => <<secRequests[i].kind, secRequests[i].path>>
                   # <<secRequests[j].kind, secRequests[j].path>>
    /\ (secPc = "done" =>
          /\ Issued("admin") = 9
          /\ Issued("dir") = 1
          /\ Issued("file") = 11
          /\ Issued("admin") + Issued("dir") + Issued("file") = 21
          /\ secResult.kind = "return")

\* C7 witness: the scan has returned after findings in both lists
C7_Witness ==
    /\ secPc = "done"
    /\ Len(secRequests) = 22
    /\ Len(vulns.adminUrls) = 1
    /\ Len(vulns.sensitiveFiles) = 2

\* the admin entries of a vulnerabilities record are well formed
AdminEntriesOk(v) ==
    \A i \in 1..Len(v.adminUrls) :
        /\ v.adminUrls[i].status \notin {0, 404}
        /\ v.adminUrls[i].accessible = (v.adminUrls[i].status < 400)

\* C8: at every point of the scan adminUrls has no entry with status 404 or
\* 0 and every entry has accessible = (status < 400); a probe adds an entry,
\* for its own path and status, exactly when it got a response whose status
\* is neither 0 nor 404. The published vulnerabilities obey the same.
C8_AdminFilter ==
    /\ [](AdminEntriesOk(vulns))
    /\ [](vulnerabilities # Null => AdminEntriesOk(vulnerabilities[1]))
    /\ [][\A o \in AdminOutcomes :
            AdminResponse(o) =>
                vulns'.adminUrls =
                    IF o.kind = "response" /\ o.status \notin {0, 404}
                    THEN Append(vulns.adminUrls,
                                [url |-> adminPaths[idx], status |-> o.status,
                                 accessible |-> o.status < 400])
                    ELSE vulns.adminUrls]_vars

\* C8 witness: an inaccessible and an accessible admin path are recorded
C8_Witness ==
    /\ Len(vulns.adminUrls) = 2
    /\ vulns.adminUrls[1].status = 400
    /\ ~vulns.adminUrls[1].accessible
    /\ vulns.adminUrls[2].status = 200
    /\ vulns.adminUrls[2].accessible
    /\ vulns.adminUrls[2].url = "/manager"

\* the file entries of a vulnerabilities record are well formed
FileEntriesOk(v) ==
    \A i \in 1..Len(v.sensitiveFiles) :
        /\ v.sensitiveFiles[i].status = 200
        /\ v.sensitiveFiles[i].accessible = TRUE

\* C9: at every point of the scan sensitiveFiles has no entry with a status
\* other than 200 and every entry has accessible = true; a probe adds an
\* entry, for its own file, exactly when its response status is 200. The
\* published vulnerabilities obey the same.
C9_FileFilter ==
    /\ [](FileEntriesOk(vulns))
    /\ [](vulnerabilities # Null => FileEntriesOk(vulnerabilities[1]))
    /\ [][\A o \in FileOutcomes :
            FileResponse(o) =>
                vulns'.sensitiveFiles =
                    IF o.kind = "response" /\ o.status = 200
                    THEN Append(vulns.sensitiveFiles,
                                [file |-> sensitiveFiles[idx], accessible |-> TRUE,
                                 status |-> 200])
                    ELSE vulns.sensitiveFiles]_vars

\* C9 witness: three files are recorded, the last of the catalogue among them
C9_Witness ==
    /\ Len(vulns.sensitiveFiles) = 3
    /\ vulns.sensitiveFiles[3].file = "/package.json"
    /\ secPc = "done"

\* the position of a path in a catalogue, 0 when it is not in it
IndexIn(list, p) ==
    IF \E i \in 1..Len(list) : list[i] = p
    THEN CHOOSE i \in 1..Len(list) : list[i] = p
    ELSE 0

\* ps is a subsequence of list in list order, without repetition
InListOrder(ps, list) ==
    /\ \A i \in 1..Len(ps) : IndexIn(list, ps[i]) > 0
    /\ \A i, j \in 1..Len(ps) : i < j => IndexIn(list, ps[i]) < IndexIn(list, ps[j])

\* C10: for any outcomes of the probes, the paths of adminUrls are a
\* subsequence of the 9 admin paths in list order and the paths of
\* sensitiveFiles a subsequence of the 11 sensitive files in list order, no
\* path more than once.
C10_ResultsInListOrder ==
    /\ InListOrder([i \in 1..Len(vulns.adminUrls) |-> vulns.adminUrls[i].url], adminPaths)
    /\ InListOrder([i \in 1..Len(vulns.sensitiveFiles) |-> vulns.sensitiveFiles[i].file],
                   sensitiveFiles)
    /\ Len(vulns.adminUrls) <= 9
    /\ Len(vulns.sensitiveFiles) <= 11

\* C10 witness: two admin paths that are not neighbours in the list, and a file
C10_Witness ==
    /\ Len(vulns.adminUrls) = 2
    /\ vulns.adminUrls[1].url = "/wp-admin"
    /\ vulns.adminUrls[2].url = "/cpanel"
    /\ Len(vulns.sensitiveFiles) = 1

----------------------------------------------------------------------------
(* Properties of the header probe *)

\* the answer that carries Strict-Transport-Security: max-age=100 and no other
\* security header
OnlyHsts ==
    [kind |-> "response",
     headers |-> [n \in HeaderNames |->
                    IF n = "strict-transport-security" THEN Some("max-age=100") ELSE Null]]

\* C11: the header probe never fails the security branch: a failed header
\* request leaves all five fields null, rejects nothing and is followed by the
\* first admin path request, and the scan still returns after all its
\* requests with those headers; after a successful request a field is
\* non-null only when its own header is present in the response, and then it
\* is that header's value (only Strict-Transport-Security present leaves the
\* other four fields null).
C11_HeaderProbeSoftFails ==
    /\ [](/\ secResult.kind # "throw"
          /\ error = ""
          /\ (secPc = "done" =>
                /\ secResult.kind = "return"
                /\ secResult.value.headers = headers
                /\ Len(secRequests) = 22))
    /\ [][secPc = "header" =>
            /\ HeaderResponse(NetworkError)
                => /\ headers' = nullHeaders
                   /\ \A f \in HeaderFields : headers'[f] = Null
                   /\ secPc' = "admin"
                   /\ secResult' = Pending
                   /\ secRequests' = Append(secRequests,
                                            [kind |-> "admin", host |-> hostname,
                                             path |-> "/admin"])
            /\ \A o \in HeaderOutcomes \ {NetworkError} :
                HeaderResponse(o)
                => /\ secPc' = "admin"
                   /\ \A f \in HeaderFields :
                        headers'[f] # Null
                        => /\ o.headers[HeaderOf[f]] # Null
                           /\ headers'[f] = o.headers[HeaderOf[f]]
            /\ HeaderResponse(OnlyHsts)
                => headers' = [nullHeaders EXCEPT
                                 !.strictTransportSecurity = Some("max-age=100")]]_vars
    /\ [][secPc # "header" => headers' = headers]_vars

\* C11 witness: the scan has returned with only strictTransportSecurity set
C11_Witness ==
    /\ secPc = "done"
    /\ secResult.kind = "return"
    /\ secResult.value.headers.strictTransportSecurity = Some("max-age=100")
    /\ \A f \in HeaderFields \ {"strictTransportSecurity"} :
          secResult.value.headers[f] = Null
    /\ Len(secRequests) = 22

----------------------------------------------------------------------------
(* Order of waits and polls in checkSSL *)

\* the number of 10 second waits that have run to their end
WaitsCompleted == sslElapsed \div 10

\* C18: every poll request is preceded by its own wait: no status query is
\* issued before one full wait has elapsed, the number of polls issued never
\* exceeds the number of waits completed (nor the number of waits started),
\* and it equals attempts or attempts + 1 (attempts + 1 exactly while a poll
\* is in flight).
C18_WaitBeforeEveryPoll ==
    /\ sslElapsed % 10 = 0
    /\ sslPolls <= WaitsCompleted
    /\ sslPolls <= sslTimers
    /\ sslTimers <= sslPolls + 1
    /\ sslPolls \in {attempts, attempts + 1}
    /\ (sslPolls >= 1 => sslElapsed >= 10)
    /\ (sslPc \in {"idle", "start"} => sslPolls = 0 /\ sslTimers = 0)
    /\ (sslPc = "wait" => sslPolls = attempts /\ sslTimers = sslPolls + 1)
    /\ (sslPc = "poll" => sslPolls = attempts + 1 /\ sslTimers = sslPolls)

\* C18 witness: the first poll is in flight after exactly one wait
C18_Witness ==
    /\ sslPc = "poll"
    /\ sslPolls = 1
    /\ attempts = 0
    /\ sslElapsed = 10
    /\ sslTimers = 1

----------------------------------------------------------------------------
(* Publication of the results *)

\* C20: the results of an analysis are published together and only after both
\* branches have returned: from the start of the analysis until checkSSL and
\* checkSecurityHeaders have both returned, sslData, securityHeaders and
\* vulnerabilities are all null and loading is true (so nothing of the scan is
\* visible while the TLS poll is still running); once published, all three
\* are what the two branches returned and loading is false.
C20_PublishedTogether ==
    /\ (aPc \notin {"mount", "skipped"} /\ (sslPc # "done" \/ secPc # "done")
            => aPc = "await")
    /\ (aPc = "await"
            => /\ loading
               /\ sslData = Null
               /\ securityHeaders = Null
               /\ vulnerabilities = Null)
    /\ (securityHeaders # Null \/ vulnerabilities # Null \/ sslData # Null
            => /\ aPc = "done"
               /\ ~loading
               /\ sslPc = "done"
               /\ secPc = "done"
               /\ securityHeaders # Null
               /\ vulnerabilities # Null)

\* C20 witness: the scan has returned, the TLS poll is still running and
\* nothing is published
C20_Witness ==
    /\ aPc = "await"
    /\ secPc = "done"
    /\ secResult.kind = "return"
    /\ sslPc = "poll"
    /\ sslPolls = 2
    /\ loading
    /\ vulnerabilities = Null
    /\ securityHeaders = Null

----------------------------------------------------------------------------
(* Results after a change of the url *)

\* the analyses that were started, the superseded ones first
Analyses == parked \o <<Current>>

\* the analysis that was started for the url the prop has now
LatestAnalysis ==
    CHOOSE a \in { Analyses[i] : i \in 1..Len(Analyses) } :
        a.hostname = extractHostname(url)

\* C19: when the url has changed while the analysis of an earlier url was in
\* flight, then once both analyses have completed the published sslData,
\* securityHeaders and vulnerabilities are those computed for the latest url.
C19_LatestUrlWins ==
    (/\ Len(parked) = 1
     /\ \A i \in 1..Len(Analyses) : Analyses[i].aPc = "done")
    => /\ sslData = LatestAnalysis.sslResult.value
       /\ securityHeaders = Some(LatestAnalysis.secResult.value.headers)
       /\ vulnerabilities = Some(LatestAnalysis.secResult.value.vulnerabilities)

----------------------------------------------------------------------------
(* Properties of analyzeImages *)

\* positions of the img elements that have no alt text, and the k-th of them
Offending(d) == { i \in 1..Len(d.img) : d.img[i].alt \in {Null, Some("")} }
NthOffending(d, k) ==
    CHOOSE i \in Offending(d) : Cardinality({ j \in Offending(d) : j < i }) = k - 1

\* C15: with no images missingAltPercentage is 0; with n > 0 images of which
\* m have no non-empty alt it is 100*m/n rounded to the nearest integer and
\* lies in 0..100; examples holds the first min(2, m) offending images in
\* document order.
C15_ImagePercentage ==
    summary # Null =>
        LET d == dom[1]
            r == summary[1]
            n == Len(d.img)
            m == Cardinality(Offending(d))
            p == r.missingAltPercentage
        IN  /\ r.total = n /\ r.missingAlt = m
            /\ n = 0 => p = 0
            /\ n > 0 => /\ p \in 0..100
                        /\ 2 * n * p - 200 * m \in (0 - n)..n
            /\ Len(r.examples) = Min(2, m)
            /\ \A k \in 1..Len(r.examples) :
                   r.examples[k] =
                       [src |-> attrOr(d.img[NthOffending(d, k)].src, ""), alt |-> ""]

C15_Witness ==
    /\ summary # Null
    /\ Len(dom[1].img) = 3
    /\ dom[1].img[1].alt = Some("logo")
    /\ dom[1].img[2].alt = Null /\ dom[1].img[2].src = Some("b.png")
    /\ dom[1].img[3].alt = Some("") /\ dom[1].img[3].src = Some("a.png")
    /\ summary[1].missingAltPercentage = 67
    /\ summary[1].examples = << [src |-> "b.png", alt |-> ""], [src |-> "a.png", alt |-> ""] >>

----------------------------------------------------------------------------
(* Properties of analyzeLinks *)

\* C14: for a document with zero anchors the ratio that analyzeLinks
\* produces does not contain NaN.
C14_ZeroLinksRatioDefined ==
    (summary # Null /\ Len(dom[1].a) = 0) => ~includes(summary[1].ratio, "NaN")

----------------------------------------------------------------------------
(* Properties of getCommonKeywords *)

\* the keywords of a summary, in order
Keywords(r) == IF r.keywords = NoKeywords THEN <<>> ELSE split(r.keywords, {" "}, FALSE)

\* the words of the text that are counted, cleaned, in order of occurrence
CleanedWords(d) ==
    LET isLong(word) == Len(word) > 3
        words == SelectSeq(split(toLowerCase(d.text), Whitespace, TRUE), isLong)
    IN  [i \in 1..Len(words) |-> stripNonLetters(words[i])]

Frequency(d, w) == Cardinality({ i \in 1..Len(CleanedWords(d)) : CleanedWords(d)[i] = w })
FirstSeen(d, w) ==
    CHOOSE i \in 1..Len(CleanedWords(d)) :
        /\ CleanedWords(d)[i] = w
        /\ \A j \in 1..(i - 1) : CleanedWords(d)[j] # w

\* C16: every keyword of the summary is a lower-case, purely alphabetic word
\* longer than 3 characters; none is empty or has 3 or fewer characters.
C16_KeywordsAreLongWords ==
    summary # Null =>
        \A i \in 1..Len(Keywords(summary[1])) :
            LET w == Keywords(summary[1])[i]
            IN  /\ Len(w) > 3
                /\ \A k \in 1..Len(w) : SubSeq(w, k, k) \in Letters

\* C17: the summary has at most 10 keywords, in order of non-increasing
\* frequency of the cleaned token, tokens of equal frequency in order of
\* first occurrence; a text whose only long word is one word repeated 5
\* times yields exactly that keyword.
C17_KeywordsRanked ==
    summary # Null =>
        LET d == dom[1]
            kw == Keywords(summary[1])
        IN  /\ Len(kw) <= 10
            /\ \A i, j \in 1..Len(kw) :
                   i < j => /\ Frequency(d, kw[i]) >= Frequency(d, kw[j])
                            /\ Frequency(d, kw[i]) = Frequency(d, kw[j])
                                   => FirstSeen(d, kw[i]) < FirstSeen(d, kw[j])
            /\ d.text = "testing testing testing testing testing" => kw = <<"testing">>

----------------------------------------------------------------------------
(* Properties of analyzeSEO *)

\* C12: when the page fetch fails analyzeSEO does not reject: it resolves to
\* exactly { error: "Failed to analyze the page" } and no robots.txt request
\* is issued; every report it returns has only the error field, or all SEO
\* fields and no error field.
C12_FetchFailureGivesErrorReport ==
    /\ [](/\ seoResult.kind # "throw"
          /\ seoResult.kind = "return"
                => \/ /\ DOMAIN seoResult.value = {"error"}
                      /\ seoResult.value.error = "Failed to analyze the page"
                      /\ seoRequests = <<seoUrl>>
                   \/ DOMAIN seoResult.value = ReportFields)
    /\ [][PageResponse(NetworkError)
            => /\ seoResult' = Returned([error |-> "Failed to analyze the page"])
               /\ seoPc' = "done"
               /\ seoRequests' = <<seoUrl>>]_vars
    /\ [][seoPc = "done" => seoRequests' = seoRequests /\ seoResult' = seoResult]_vars

C12_Witness ==
    /\ seoUrl = "https://www.ex.io"
    /\ seoPc = "done"
    /\ dom = Null
    /\ seoResult = Returned([error |-> "Failed to analyze the page"])
    /\ seoRequests = <<"https://www.ex.io">>

\* C13: when the page fetch has succeeded and the robots.txt request fails,
\* analyzeSEO returns the full report with technicalSEO.robotsTxt.exists =
\* false and no error; robotsTxt.exists is true exactly when the robots.txt
\* request succeeded.
C13_RobotsSoftFail ==
    [][\A o \in RobotsOutcomes :
         RobotsResponse(o)
         => /\ seoResult'.kind = "return"
            /\ DOMAIN seoResult'.value = ReportFields
            /\ seoResult'.value.technicalSEO.robotsTxt.exists = (o.kind = "response")]_vars

----------------------------------------------------------------------------
(* Order of the requests of checkSecurityHeaders *)

\* the step hands checkSecurityHeaders the outcome of the request that was
\* issued last
CompletesLast ==
    LET last == secRequests[Len(secRequests)]
    IN  CASE last.kind = "header" -> \E o \in HeaderOutcomes : HeaderResponse(o)
          [] last.kind = "admin"  -> \E o \in AdminOutcomes : AdminResponse(o)
          [] last.kind = "dir"    -> \E o \in DirOutcomes : DirResponse(o)
          [] last.kind = "file"   -> \E o \in FileOutcomes : FileResponse(o)

\* C21: the requests of checkSecurityHeaders are strictly sequential: a
\* request is issued only by the call (the header request) or in the step that
\* completes the request issued before it, one at a time, so that at most one
\* is in flight; the first admin request follows the completion of the header
\* request, the directory index request the completion of the 9th admin
\* request, and the first sensitive file request the completion of the
\* directory index request.
C21_ScanIsSequential ==
    /\ [](Len(secRequests) = ScanPosition)
    /\ [][secRequests' # secRequests =>
            \/ /\ secRequests = <<>>
               /\ Len(secRequests') = 1
               /\ secRequests'[1].kind = "header"
            \/ /\ secRequests # <<>>
               /\ Len(secRequests') = Len(secRequests) + 1
               /\ SubSeq(secRequests', 1, Len(secRequests)) = secRequests
               /\ CompletesLast
               /\ LET last == secRequests[Len(secRequests)]
                      new == secRequests'[Len(secRequests')]
                  IN  /\ new.kind = "admin" => \/ last.kind = "header"
                                               \/ last.kind = "admin" /\ Issued("admin") < 9
                      /\ new.kind = "dir" => last.kind = "admin" /\ Issued("admin") = 9
                      /\ new.kind = "file" => \/ last.kind = "dir"
                                              \/ last.kind = "file"
                      /\ new.kind # "header"]_vars
    /\ [][(secPc # "idle" /\ secPc # "done" /\ secRequests' = secRequests)
            => (secPc' = secPc /\ idx' = idx) \/ secPc' = "done"]_vars

C21_Witness ==
    /\ secPc = "file"
    /\ idx = 1
    /\ Len(secRequests) = 12
    /\ Issued("admin") = 9
    /\ secRequests[11].kind = "dir"
    /\ secRequests[12] = [kind |-> "file", host |-> hostname, path |-> sensitiveFiles[1]]

----------------------------------------------------------------------------
(* Termination of an analysis *)

\* C22: when every request is eventually answered or fails, an analysis that
\* has set loading to true eventually sets it to false, whatever the outcomes
\* of the probes and of the TLS check, the exhaustion of all 30 polls included.
C22_AnalysisFinishes == loading ~> (~loading /\ aPc = "done")

C22_Witness ==
    /\ aPc = "done"
    /\ ~loading
    /\ sslPolls = maxAttempts
    /\ sslResult = Returned(Null)
    /\ secResult.kind = "return"
    /\ Len(secRequests) = 22

====
